---- MODULE Spec2Model ----
(***************************************************************************)
(* calculateRank (src/src/calculateRank.js) as a state machine.            *)
(*                                                                         *)
(* The function is pure; its arithmetic is that of JavaScript Numbers,     *)
(* IEEE-754 binary64 with round-to-nearest-even.  The model keeps that     *)
(* arithmetic: a Number is a record (class, sign, 53-bit significand,      *)
(* exponent), the significand an arbitrary-precision natural held as a     *)
(* little-endian sequence of 15-bit limbs, so that rounding, saturation,   *)
(* overflow to Infinity and NaN are those of the code.                     *)
(***************************************************************************)
EXTENDS Integers, Sequences, FiniteSets, TLC

(***************************************************************************)
(* Arbitrary-precision naturals: <<l1, l2, ...>> is l1 + l2*Base + ...,    *)
(* no high zero limb; <<>> is 0.  Carries are found by lookahead, not one  *)
(* limb after the other, so that no operation recurses over the limbs.     *)
(***************************************************************************)
Pow2(k) == 2 ^ k

Max(a, b) == IF a >= b THEN a ELSE b

\* The number of bits of n, 0 <= n < 2^31
IntBitLen(n) == IF n = 0 THEN 0 ELSE CHOOSE k \in 1..31 : n \div Pow2(k - 1) = 1

Base == Pow2(15)
LimbBits == IntBitLen(Base - 1)

Limb(a, i) == IF i >= 1 /\ i <= Len(a) THEN a[i] ELSE 0

Zeros(q) == [i \in 1..q |-> 0]

\* The index of the highest limb of a that is not 0; 0 if there is none
NLen(a) ==
  IF \A i \in 1..Len(a) : a[i] = 0 THEN 0
  ELSE CHOOSE i \in 1..Len(a) : a[i] # 0 /\ \A j \in (i + 1)..Len(a) : a[j] = 0

NNorm(a) == SubSeq(a, 1, NLen(a))

NFromInt(n) == NNorm(<<n % Base, (n \div Base) % Base, n \div (Base * Base)>>)

\* Limb sums s, each at most 2 * (Base - 1): a carry enters limb i if a lower
\* limb overflows and every limb between passes the carry on
CarryIn(s, i) ==
  \E j \in 1..(i - 1) : s[j] >= Base /\ \A k \in (j + 1)..(i - 1) : s[k] = Base - 1

AddCarries(s) ==
  NNorm([i \in 1..(Len(s) + 1) |-> (Limb(s, i) + (IF CarryIn(s, i) THEN 1 ELSE 0)) % Base])

\* a + b
NAdd(a, b) == AddCarries([i \in 1..Max(Len(a), Len(b)) |-> Limb(a, i) + Limb(b, i)])

\* Limb differences d: a borrow enters limb i if a lower limb is negative and
\* every limb between is 0
BorrowIn(d, i) ==
  \E j \in 1..(i - 1) : d[j] < 0 /\ \A k \in (j + 1)..(i - 1) : d[k] = 0

SubBorrows(d) ==
  NNorm([i \in 1..Len(d) |-> (d[i] - (IF BorrowIn(d, i) THEN 1 ELSE 0) + Base) % Base])

\* a - b for a >= b
NSub(a, b) == SubBorrows([i \in 1..Len(a) |-> a[i] - Limb(b, i)])

\* a and b differ; i is the highest limb where they do
NCmpAt(a, b, i) == IF a[i] < b[i] THEN -1 ELSE 1

\* -1, 0, 1 as a < b, a = b, a > b
NCmp(a, b) ==
  CASE Len(a) < Len(b) -> -1
    [] Len(a) > Len(b) -> 1
    [] \A i \in 1..Len(a) : a[i] = b[i] -> 0
    [] OTHER -> NCmpAt(a, b, CHOOSE i \in 1..Len(a) :
                               a[i] # b[i] /\ \A j \in (i + 1)..Len(a) : a[j] = b[j])

\* The natural with column values t, t[1] + t[2]*Base + ..., each below Base^2
NCarry(t) == NAdd([i \in 1..Len(t) |-> t[i] % Base],
                  <<0>> \o [i \in 1..Len(t) |-> t[i] \div Base])

\* a * k for 0 <= k < Base
NMulSmall(a, k) == NCarry([i \in 1..Len(a) |-> a[i] * k])

\* Column k of a * b: the low halves of the limb products a[i] * b[j] with
\* i + j = k + 1 and the high halves of those with i + j = k, for j up to n
RECURSIVE Column(_, _, _, _)
Column(a, b, k, n) ==
  IF n = 0 THEN 0
  ELSE ((Limb(a, k + 1 - n) * b[n]) % Base) + ((Limb(a, k - n) * b[n]) \div Base)
       + Column(a, b, k, n - 1)

\* a * b
NMul(a, b) ==
  IF a = <<>> \/ b = <<>> THEN <<>>
  ELSE NCarry([k \in 1..(Len(a) + Len(b)) |-> Column(a, b, k, Len(b))])

\* a * 2^k
NShl(a, k) == IF a = <<>> THEN <<>>
              ELSE Zeros(k \div LimbBits) \o NMulSmall(a, Pow2(k % LimbBits))

\* floor(a / 2^(q * LimbBits + r)), r < LimbBits
ShrAt(a, q, r) ==
  NNorm([i \in 1..(Len(a) - q) |->
           (a[i + q] \div Pow2(r)) + (Limb(a, i + q + 1) % Pow2(r)) * Pow2(LimbBits - r)])

\* floor(a / 2^k)
NShr(a, k) == IF k \div LimbBits >= Len(a) THEN <<>>
              ELSE ShrAt(a, k \div LimbBits, k % LimbBits)

\* a mod 2^k = 0
NLowZero(a, k) ==
  /\ \A i \in 1..(k \div LimbBits) : Limb(a, i) = 0
  /\ Limb(a, k \div LimbBits + 1) % Pow2(k % LimbBits) = 0

\* bit k of a (bit 0 the lowest)
NBit(a, k) == (Limb(a, k \div LimbBits + 1) \div Pow2(k % LimbBits)) % 2

NBitLen(a) == IF a = <<>> THEN 0 ELSE LimbBits * (Len(a) - 1) + IntBitLen(a[Len(a)])

NOdd(a) == Limb(a, 1) % 2 = 1

(***************************************************************************)
(* JavaScript Numbers.  A finite Number is (-1)^neg * m * 2^e with m < 2^53 *)
(* and either m >= 2^52 (normal) or e = MinExp (subnormal); zero has        *)
(* m = <<>>, e = 0.  The form is canonical: equal records, equal values.    *)
(* Intermediate values are passed as operator arguments, which TLC         *)
(* evaluates once.                                                         *)
(***************************************************************************)
Precision == 53
MinExp == -1074
MaxBits == 1024

Fin(neg, m, e) == [k |-> "fin", neg |-> neg, m |-> m, e |-> e]
Inf(neg) == [k |-> "inf", neg |-> neg, m |-> <<>>, e |-> 0]
NaN == [k |-> "nan", neg |-> FALSE, m |-> <<>>, e |-> 0]
Zero(neg) == Fin(neg, <<>>, 0)

IsNaN(a) == a.k = "nan"
IsInf(a) == a.k = "inf"
IsFin(a) == a.k = "fin"
IsZero(a) == a.k = "fin" /\ a.m = <<>>

\* Overflow to Infinity
Pack(neg, q, e) == IF NBitLen(q) + e > MaxBits THEN Inf(neg) ELSE Fin(neg, q, e)

\* A rounded significand of Precision + 1 bits is 2^Precision
RoundCarry(neg, q, e) ==
  CASE q = <<>> -> Zero(neg)
    [] NBitLen(q) > Precision -> Pack(neg, NShr(q, 1), e + 1)
    [] OTHER -> Pack(neg, q, e)

\* q the kept bits; half, the first bit dropped; rest, whether any bit after it is set
RoundUp(neg, q, e, half, rest, mode) ==
  IF CASE mode = "nearest" -> half /\ (rest \/ NOdd(q))
       [] mode = "down" -> FALSE
       [] mode = "up" -> half \/ rest
  THEN RoundCarry(neg, NAdd(q, <<1>>), e)
  ELSE RoundCarry(neg, q, e)

\* s the number of low bits of m to drop (to add, if negative)
RoundAt(neg, m, e, sticky, mode, s) ==
  IF s <= 0 THEN RoundCarry(neg, NShl(m, -s), e + s)
  ELSE RoundUp(neg, NShr(m, s), e + s, NBit(m, s - 1) = 1,
               sticky \/ ~NLowZero(m, s - 1), mode)

\* The Number nearest (mode "nearest", ties to even), next below ("down") or
\* next above ("up") in magnitude to (m + f) * 2^e, where 0 < f < 1 if sticky
\* and f = 0 if not.  A sticky m has more than Precision + 1 bits.
RoundMode(neg, m, e, sticky, mode) ==
  IF m = <<>> THEN Zero(neg)
  ELSE RoundAt(neg, m, e, sticky, mode, Max(e + NBitLen(m) - Precision, MinExp) - e)

RoundPack(neg, m, e, sticky) == RoundMode(neg, m, e, sticky, "nearest")

\* One digit of long division: the largest q with q * d <= r, for r < d * Base
\* and d with its high limb at least Base / 2.  The estimate the two high limbs
\* of r and the high limb of d give is never too small and at most 2 too large.
DigitEst(r, d) == (Limb(r, Len(d) + 1) * Base + Limb(r, Len(d))) \div d[Len(d)]

Fits(r, d, q) == NCmp(NMulSmall(d, q), r) <= 0

DigitFix(r, d, q) ==
  CASE Fits(r, d, q) -> q
    [] Fits(r, d, q - 1) -> q - 1
    [] OTHER -> q - 2

Digit(r, d) ==
  DigitFix(r, d, IF DigitEst(r, d) >= Base THEN Base - 1 ELSE DigitEst(r, d))

\* k digits of the long division of r / d, r < d: the quotient and the rest
RECURSIVE DivDigits(_, _, _, _)
RECURSIVE DivStep(_, _, _, _, _)
DivDigits(r, d, k, q) ==
  IF k = 0 THEN [q |-> NNorm(q), r |-> r]
  ELSE IF r = <<>> THEN DivDigits(r, d, k - 1, <<0>> \o q)
  ELSE DivStep(<<0>> \o r, d, k, q, Digit(<<0>> \o r, d))

DivStep(r, d, k, q, qd) == DivDigits(NSub(r, NMulSmall(d, qd)), d, k - 1, <<qd>> \o q)

\* Quotient digits kept: 60 bits, more than Precision + 2
GuardDigits == (Precision + 2) \div LimbBits + 1

\* The length both terms of a ratio are scaled to, a whole number of limbs
AlignLen(n, d) == LimbBits * ((Max(NBitLen(n), NBitLen(d)) + LimbBits - 1) \div LimbBits)

RatioRound(neg, qr, e) == RoundPack(neg, qr.q, e - GuardDigits * LimbBits, qr.r # <<>>)

\* n and d of the same length, so that 1/2 < n / d < 2
RatioScaled(neg, n, d, e) ==
  IF NCmp(n, d) >= 0
  THEN RatioRound(neg, DivDigits(NSub(n, d), d, GuardDigits, <<1>>), e)
  ELSE RatioRound(neg, DivDigits(n, d, GuardDigits, <<>>), e)

\* The Number nearest to (-1)^neg * (n / d) * 2^e, for naturals n, d > 0
RatioToNum(neg, n, d, e) ==
  IF n = <<>> THEN Zero(neg)
  ELSE RatioScaled(neg, NShl(n, AlignLen(n, d) - NBitLen(n)),
                   NShl(d, AlignLen(n, d) - NBitLen(d)), e + NBitLen(n) - NBitLen(d))

\* An integer literal, |n| < 2^31
Int2Num(n) == IF n < 0 THEN RoundPack(TRUE, NFromInt(-n), 0, FALSE)
              ELSE RoundPack(FALSE, NFromInt(n), 0, FALSE)

\* A decimal literal n / d, as the parser rounds it
Dec(n, d) == RatioToNum(n < 0, NFromInt(IF n < 0 THEN -n ELSE n), NFromInt(d), 0)

\* hi + lo where lo is below a quarter of hi's last place: it only breaks ties
AddFar(hi, lo, mh) ==
  IF hi.neg = lo.neg THEN RoundPack(hi.neg, mh, hi.e - Precision, TRUE)
  ELSE RoundPack(hi.neg, NSub(mh, <<1>>), hi.e - Precision, TRUE)

\* c compares mh, hi's significand at lo's exponent, with lo's
AddNear(hi, lo, mh, c) ==
  CASE hi.neg = lo.neg -> RoundPack(hi.neg, NAdd(mh, lo.m), lo.e, FALSE)
    [] c = 0 -> Zero(FALSE)
    [] c > 0 -> RoundPack(hi.neg, NSub(mh, lo.m), lo.e, FALSE)
    [] OTHER -> RoundPack(lo.neg, NSub(lo.m, mh), lo.e, FALSE)

AddAligned(hi, lo, mh) == AddNear(hi, lo, mh, NCmp(mh, lo.m))

\* hi.e >= lo.e, both finite and not zero
AddOrdered(hi, lo) ==
  IF hi.e - lo.e > 2 * Precision THEN AddFar(hi, lo, NShl(hi.m, Precision))
  ELSE AddAligned(hi, lo, NShl(hi.m, hi.e - lo.e))

\* a + b
NumAdd(a, b) ==
  CASE IsNaN(a) \/ IsNaN(b) -> NaN
    [] IsInf(a) -> (IF IsInf(b) /\ a.neg # b.neg THEN NaN ELSE a)
    [] IsInf(b) -> b
    [] IsZero(a) -> (IF IsZero(b) THEN Zero(a.neg /\ b.neg) ELSE b)
    [] IsZero(b) -> a
    [] a.e >= b.e -> AddOrdered(a, b)
    [] OTHER -> AddOrdered(b, a)

NumNeg(a) == IF IsNaN(a) THEN NaN ELSE [a EXCEPT !.neg = ~a.neg]

\* a - b
NumSub(a, b) == NumAdd(a, NumNeg(b))

\* a * b
NumMul(a, b) ==
  CASE IsNaN(a) \/ IsNaN(b) -> NaN
    [] IsInf(a) \/ IsInf(b) ->
         (IF IsZero(a) \/ IsZero(b) THEN NaN ELSE Inf(a.neg # b.neg))
    [] IsZero(a) \/ IsZero(b) -> Zero(a.neg # b.neg)
    [] OTHER -> RoundPack(a.neg # b.neg, NMul(a.m, b.m), a.e + b.e, FALSE)

\* a / b
NumDiv(a, b) ==
  CASE IsNaN(a) \/ IsNaN(b) -> NaN
    [] IsInf(a) -> (IF IsInf(b) THEN NaN ELSE Inf(a.neg # b.neg))
    [] IsInf(b) -> Zero(a.neg # b.neg)
    [] IsZero(b) -> (IF IsZero(a) THEN NaN ELSE Inf(a.neg # b.neg))
    [] OTHER -> RatioToNum(a.neg # b.neg, a.m, b.m, a.e - b.e)

\* -1, 0, 1 as x < y, x = y, x > y, for integers
IntCmp(x, y) == IF x < y THEN -1 ELSE IF x > y THEN 1 ELSE 0

\* -1, 0, 1 as |a| < |b|, |a| = |b|, |a| > |b|, for finite nonzero a and b
MagCmp(a, b) ==
  IF a.e + NBitLen(a.m) # b.e + NBitLen(b.m)
  THEN IntCmp(a.e + NBitLen(a.m), b.e + NBitLen(b.m))
  ELSE NCmp(a.m, b.m)

\* -1, 0, 1 as a is negative, zero, positive
Sign(a) == IF IsZero(a) THEN 0 ELSE IF a.neg THEN -1 ELSE 1

\* -1, 0, 1 as a < b, a = b, a > b, for a and b not NaN
NumCmp(a, b) ==
  CASE Sign(a) # Sign(b) -> IntCmp(Sign(a), Sign(b))
    [] Sign(a) = 0 -> 0
    [] IsInf(a) /\ IsInf(b) -> 0
    [] IsInf(a) -> Sign(a)
    [] IsInf(b) -> -Sign(a)
    [] OTHER -> Sign(a) * MagCmp(a, b)

\* a <= b, a < b, a === b as JavaScript compares Numbers: false on NaN
NumLE(a, b) == ~IsNaN(a) /\ ~IsNaN(b) /\ NumCmp(a, b) <= 0
NumLT(a, b) == ~IsNaN(a) /\ ~IsNaN(b) /\ NumCmp(a, b) < 0
NumEq(a, b) == ~IsNaN(a) /\ ~IsNaN(b) /\ NumCmp(a, b) = 0

(***************************************************************************)
(* 2 ** y.  ECMAScript fixes the result for y NaN, +-0 and +-Infinity and  *)
(* leaves the rest "implementation-approximated".  An integer y gives the  *)
(* exact power (rounded into the subnormals, 0 or Infinity beyond them).   *)
(* For any other y, 2^y = 2^N * 2^-g with N = ceil(y) and 0 < g < 1, which *)
(* is irrational; 2^-g is computed in fixed point with FracBits bits as    *)
(* the product of the 2^-(2^-i) over the set bits i of g, and rounded to a *)
(* neighbouring Number in the direction the engine rounds (mode).          *)
(***************************************************************************)
FracBits == 75

\* Pow2Table[i] = floor(2^FracBits * 2^-(2^-i))
Pow2Table == <<
  <<8907, 26184, 32571, 15564, 23170>>, <<8653, 22191, 23251, 16178, 27554>>,
  <<30337, 17298, 31652, 12729, 30048>>, <<25564, 27842, 9360, 24389, 31378>>,
  <<21473, 8243, 28229, 27830, 32065>>, <<9257, 27671, 7824, 771, 32415>>,
  <<23918, 30852, 3953, 1111, 32591>>, <<10624, 27786, 10787, 13014, 32679>>,
  <<3321, 23277, 17297, 21908, 32723>>, <<24221, 32272, 14366, 27092, 32745>>,
  <<12015, 12917, 24315, 29868, 32756>>, <<27713, 14531, 32739, 14918, 32762>>,
  <<8476, 16486, 21504, 7455, 32765>>, <<7787, 20149, 28418, 20110, 32766>>,
  <<2358, 23979, 6337, 10055, 32767>>, <<20559, 31167, 17584, 21411, 32767>>,
  <<2721, 16197, 24684, 27089, 32767>>, <<6622, 8241, 28603, 29928, 32767>>,
  <<30608, 28730, 14270, 31348, 32767>>, <<28960, 24613, 7127, 32058, 32767>>,
  <<828, 31253, 3561, 32413, 32767>>, <<1011, 16267, 18164, 32590, 32767>>,
  <<21124, 4197, 9082, 32679, 32767>>, <<28003, 1114, 20925, 32723, 32767>>,
  <<14266, 16695, 26846, 32745, 32767>>, <<7199, 8286, 29807, 32756, 32767>>,
  <<24096, 20511, 14903, 32762, 32767>>, <<788, 26636, 7451, 32765, 32767>>,
  <<1675, 29701, 20109, 32766, 32767>>, <<9349, 31234, 10054, 32767, 32767>>,
  <<2706, 15617, 21411, 32767, 32767>>, <<17245, 24192, 27089, 32767, 32767>>,
  <<8499, 28480, 29928, 32767, 32767>>, <<4219, 14240, 31348, 32767, 32767>>,
  <<2101, 7120, 32058, 32767, 32767>>, <<1049, 3560, 32413, 32767, 32767>>,
  <<524, 18164, 32590, 32767, 32767>>, <<261, 9082, 32679, 32767, 32767>>,
  <<130, 20925, 32723, 32767, 32767>>, <<16449, 26846, 32745, 32767, 32767>>,
  <<8224, 29807, 32756, 32767, 32767>>, <<20496, 14903, 32762, 32767, 32767>>,
  <<26632, 7451, 32765, 32767, 32767>>, <<29700, 20109, 32766, 32767, 32767>>,
  <<31234, 10054, 32767, 32767, 32767>>, <<15617, 21411, 32767, 32767, 32767>>,
  <<24192, 27089, 32767, 32767, 32767>>, <<28480, 29928, 32767, 32767, 32767>>,
  <<14240, 31348, 32767, 32767, 32767>>, <<7120, 32058, 32767, 32767, 32767>>,
  <<3560, 32413, 32767, 32767, 32767>>, <<18164, 32590, 32767, 32767, 32767>>,
  <<9082, 32679, 32767, 32767, 32767>>, <<20925, 32723, 32767, 32767, 32767>>,
  <<26846, 32745, 32767, 32767, 32767>>, <<29807, 32756, 32767, 32767, 32767>>,
  <<14903, 32762, 32767, 32767, 32767>>, <<7451, 32765, 32767, 32767, 32767>>,
  <<20109, 32766, 32767, 32767, 32767>>, <<10054, 32767, 32767, 32767, 32767>>,
  <<21411, 32767, 32767, 32767, 32767>>, <<27089, 32767, 32767, 32767, 32767>>,
  <<29928, 32767, 32767, 32767, 32767>>, <<31348, 32767, 32767, 32767, 32767>>,
  <<32058, 32767, 32767, 32767, 32767>>, <<32413, 32767, 32767, 32767, 32767>>,
  <<32590, 32767, 32767, 32767, 32767>>, <<32679, 32767, 32767, 32767, 32767>>,
  <<32723, 32767, 32767, 32767, 32767>>, <<32745, 32767, 32767, 32767, 32767>>,
  <<32756, 32767, 32767, 32767, 32767>>, <<32762, 32767, 32767, 32767, 32767>>,
  <<32765, 32767, 32767, 32767, 32767>>, <<32766, 32767, 32767, 32767, 32767>>,
  <<32767, 32767, 32767, 32767, 32767>>
>>

NToInt(a) == Limb(a, 1) + Base * Limb(a, 2)

\* a mod 2^k
NLowBits(a, k) == NSub(a, NShl(NShr(a, k), k))

FracOne == NShl(<<1>>, FracBits)
FracHalf == NShl(<<1>>, FracBits - 1)

\* a * b / 2^FracBits, rounded down
FracMul(a, b) == IF a = FracOne THEN b
                 ELSE IF b = FracOne THEN a
                 ELSE NShr(NMul(a, b), FracBits)

\* 2^FracBits * 2^-(the bits lo .. hi of g), g a fraction of FracBits bits with
\* bit 1 its highest: the product of Pow2Table[i] / 2^FracBits over the set bits
\* i in lo .. hi, each product rounded down
RECURSIVE PowFrac(_, _, _)
PowFrac(g, lo, hi) ==
  IF lo = hi
  THEN IF NBit(g, FracBits - lo) = 1 THEN Pow2Table[lo] ELSE FracOne
  ELSE FracMul(PowFrac(g, lo, (lo + hi) \div 2), PowFrac(g, (lo + hi) \div 2 + 1, hi))

\* The error of PowFrac, in units of 2^-FracBits: a rounding per product, a
\* rounding per table entry, and the bits of g below 2^-FracBits
PowErr == NFromInt(2 * FracBits + 2)

\* 1/2 < 2^-g < 1
ClampLo(p) == IF NCmp(p, FracHalf) <= 0 THEN NAdd(FracHalf, <<1>>) ELSE p
ClampHi(p) == IF NCmp(p, FracOne) >= 0 THEN NSub(FracOne, <<1>>) ELSE p

\* 2^N * p / 2^FracBits, p within PowErr of 2^FracBits * 2^-g
PowRound(N, p, mode) ==
  CASE mode = "nearest" -> RoundMode(FALSE, p, N - FracBits, TRUE, mode)
    [] mode = "down" -> RoundMode(FALSE, ClampLo(NSub(p, PowErr)), N - FracBits, FALSE, mode)
    [] mode = "up" -> RoundMode(FALSE, ClampHi(NAdd(p, PowErr)), N - FracBits, FALSE, mode)

\* 2^n
PowInt(n, mode) == RoundMode(FALSE, <<1>>, n, FALSE, mode)

\* g = gn / 2^sh as a fraction of FracBits bits
FracFix(gn, sh) == IF sh > FracBits THEN NShr(gn, sh - FracBits)
                   ELSE NShl(gn, FracBits - sh)

\* |y| = ip + fr / 2^sh
PowSplit(neg, ip, fr, sh, mode) ==
  CASE fr = <<>> -> PowInt(IF neg THEN -ip ELSE ip, mode)
    [] neg -> PowRound(-ip, PowFrac(FracFix(fr, sh), 1, FracBits), mode)
    [] OTHER -> PowRound(ip + 1, PowFrac(FracFix(NSub(NShl(<<1>>, sh), fr), sh), 1, FracBits), mode)

\* Beyond these every mode's result is that of the bound itself
PowMinExp == MinExp - 2

NumPow2(y, mode) ==
  CASE IsNaN(y) -> NaN
    [] IsZero(y) -> Fin(FALSE, NShl(<<1>>, Precision - 1), 1 - Precision)
    [] IsInf(y) -> (IF y.neg THEN Zero(FALSE) ELSE Inf(FALSE))
    [] y.e + NBitLen(y.m) > IntBitLen(-PowMinExp) ->
         (IF y.neg THEN PowInt(PowMinExp, mode) ELSE Inf(FALSE))
    [] y.e >= 0 -> PowSplit(y.neg, NToInt(NShl(y.m, y.e)), <<>>, 0, mode)
    [] OTHER -> PowSplit(y.neg, NToInt(NShr(y.m, -y.e)), NLowBits(y.m, -y.e), -y.e, mode)

(***************************************************************************)
(* The program's state: calculateRank keeps none.  The variables hold the  *)
(* engine's rounding of ** (powRound), the parameters object the caller    *)
(* holds (input), and the calls made so far, oldest first, each with its   *)
(* arguments and its result (calls).                                       *)
(***************************************************************************)
VARIABLES powRound, input, calls

vars == <<powRound, input, calls>>

PowRoundings == {"nearest", "down", "up"}

One == Int2Num(1)
Hundred == Int2Num(100)

\* An exponential CDF that leaves out the "1 -"
ExponentialTail(x) == NumPow2(NumNeg(x), powRound)

\* The commit medians the wrong way round
SwappedMedian(all_commits) == IF all_commits THEN Int2Num(80) ELSE Int2Num(400)

\* 1 - 2 ** -x
exponential_cdf(x) == NumSub(One, NumPow2(NumNeg(x), powRound))

\* x / (1 + x)
log_normal_cdf(x) == NumDiv(x, NumAdd(One, x))

COMMITS_MEDIAN(all_commits) == IF all_commits THEN Int2Num(400) ELSE Int2Num(80)
COMMITS_WEIGHT == Int2Num(15)
PRS_MEDIAN == Int2Num(15)
PRS_WEIGHT == Int2Num(3)
ISSUES_MEDIAN == Int2Num(2)
ISSUES_WEIGHT == Dec(5, 10)
REVIEWS_MEDIAN == Int2Num(2)
REVIEWS_WEIGHT == Dec(5, 10)
STARS_MEDIAN == Dec(1, 10)
STARS_WEIGHT == Dec(5, 100)
FOLLOWERS_MEDIAN == Int2Num(2)
FOLLOWERS_WEIGHT == Dec(5, 10)

\* A total that leaves out the last weight
TotalWithoutFollowers ==
  NumAdd(NumAdd(NumAdd(NumAdd(COMMITS_WEIGHT, PRS_WEIGHT), ISSUES_WEIGHT),
                REVIEWS_WEIGHT), STARS_WEIGHT)

TOTAL_WEIGHT ==
  NumAdd(NumAdd(NumAdd(NumAdd(NumAdd(COMMITS_WEIGHT, PRS_WEIGHT), ISSUES_WEIGHT),
                       REVIEWS_WEIGHT), STARS_WEIGHT), FOLLOWERS_WEIGHT)

THRESHOLDS == <<Dec(1, 10), Dec(5, 10), Int2Num(1), Int2Num(5), Dec(125, 10), Int2Num(25),
                Dec(375, 10), Int2Num(50), Dec(625, 10), Int2Num(75), Dec(875, 10),
                Int2Num(100)>>
LEVELS == <<"S++", "S+", "S", "S-", "A+", "A", "A-", "B+", "B", "B-", "C+", "C">>

Undefined == "undefined"

\* A lookup that compares with < where the code compares with <=
StrictTest(p, t) == NumLT(p, t)

\* (t) => rank * 100 <= t, with p for rank * 100
Test(p, t) == NumLE(p, t)

\* Array.prototype.findIndex on THRESHOLDS with that callback: the 0-based index
\* of the first threshold it accepts, -1 when it accepts none
findIndex(p) ==
  IF \A i \in 1..Len(THRESHOLDS) : ~Test(p, THRESHOLDS[i]) THEN -1
  ELSE (CHOOSE i \in 1..Len(THRESHOLDS) :
          Test(p, THRESHOLDS[i]) /\ \A j \in 1..(i - 1) : ~Test(p, THRESHOLDS[j])) - 1

\* LEVELS[i]: an array read outside 0 .. length - 1 is undefined
LevelAt(i) == IF i >= 0 /\ i < Len(LEVELS) THEN LEVELS[i + 1] ELSE Undefined

\* const level = LEVELS[THRESHOLDS.findIndex((t) => rank * 100 <= t)]
LevelOf(p) == LevelAt(findIndex(p))

\* The returned object, from the scores, the weighted contributions, their sum,
\* rank * 100 and the level.  The fields are written in the order the code
\* computes them.
Result(scores, wc, weighted_sum, percentile, level) ==
  [detailed |->
     [scores |-> scores,
      weights |-> [commits |-> COMMITS_WEIGHT, prs |-> PRS_WEIGHT,
                   issues |-> ISSUES_WEIGHT, reviews |-> REVIEWS_WEIGHT,
                   stars |-> STARS_WEIGHT, followers |-> FOLLOWERS_WEIGHT],
      weighted_contributions |-> wc,
      total_weighted_score |-> weighted_sum,
      max_possible_score |-> TOTAL_WEIGHT,
      percentile |-> percentile,
      level |-> level],
   percentile |-> percentile,
   level |-> level]

\* const level = LEVELS[THRESHOLDS.findIndex((t) => rank * 100 <= t)]
WithPercentile(scores, wc, weighted_sum, percentile) ==
  Result(scores, wc, weighted_sum, percentile, LevelOf(percentile))

\* const rank = 1 - (weighted_sum / TOTAL_WEIGHT)
WithSum(scores, wc, weighted_sum) ==
  WithPercentile(scores, wc, weighted_sum,
                 NumMul(NumSub(One, NumDiv(weighted_sum, TOTAL_WEIGHT)), Hundred))

\* const weighted_sum = COMMITS_WEIGHT * commits_score + ... + FOLLOWERS_WEIGHT * followers_score
WithContributions(scores, wc) ==
  WithSum(scores, wc,
          NumAdd(NumAdd(NumAdd(NumAdd(NumAdd(wc.commits, wc.prs), wc.issues),
                               wc.reviews), wc.stars), wc.followers))

WithScores(scores) ==
  WithContributions(scores,
    [commits |-> NumMul(COMMITS_WEIGHT, scores.commits),
     prs |-> NumMul(PRS_WEIGHT, scores.prs),
     issues |-> NumMul(ISSUES_WEIGHT, scores.issues),
     reviews |-> NumMul(REVIEWS_WEIGHT, scores.reviews),
     stars |-> NumMul(STARS_WEIGHT, scores.stars),
     followers |-> NumMul(FOLLOWERS_WEIGHT, scores.followers)])

calculateRank(a) ==
  WithScores(
    [commits |-> exponential_cdf(NumDiv(a.commits, COMMITS_MEDIAN(a.all_commits))),
     prs |-> exponential_cdf(NumDiv(a.prs, PRS_MEDIAN)),
     issues |-> exponential_cdf(NumDiv(a.issues, ISSUES_MEDIAN)),
     reviews |-> exponential_cdf(NumDiv(a.reviews, REVIEWS_MEDIAN)),
     stars |-> log_normal_cdf(NumDiv(a.stars, STARS_MEDIAN)),
     followers |-> log_normal_cdf(NumDiv(a.followers, FOLLOWERS_MEDIAN))])

(***************************************************************************)
(* The caller.  It builds a parameters object, calls calculateRank, and    *)
(* may change one parameter and call again.  calculateRank has no throw    *)
(* statement and calls nothing that throws on Numbers: every call returns. *)
(***************************************************************************)
Metrics == {"commits", "prs", "issues", "reviews", "stars", "followers"}

\* Calls the caller makes
MaxCalls == 2

\* Largest multiple of a metric's median the caller sets a metric to
MaxRatio == 1

\* Number.MAX_VALUE, (2^53 - 1) * 2^971, the largest finite Number
MAX_VALUE == Fin(FALSE, NSub(NShl(<<1>>, Precision), <<1>>), MaxBits - Precision)

\* 10^15, a count past which every score has saturated
Big == RoundPack(FALSE, NMul(NFromInt(1000000000), NFromInt(1000000)), 0, FALSE)

Median == [f \in Metrics |->
             CASE f = "commits" -> COMMITS_MEDIAN(FALSE)
               [] f = "prs" -> PRS_MEDIAN
               [] f = "issues" -> ISSUES_MEDIAN
               [] f = "reviews" -> REVIEWS_MEDIAN
               [] f = "stars" -> STARS_MEDIAN
               [] f = "followers" -> FOLLOWERS_MEDIAN]

Multiples(m) == {NumMul(Int2Num(k), m) : k \in 0..MaxRatio}

\* The values the caller sets metric f to: multiples of its median (of either
\* median, for commits), a saturating count, the largest Number, and a negative
Values == [f \in Metrics |->
             Multiples(Median[f])
             \cup (IF f = "commits" THEN Multiples(COMMITS_MEDIAN(TRUE)) ELSE {})
             \cup (IF f = "stars" THEN {Big} ELSE {})
             \cup {MAX_VALUE, NumNeg(Median[f])}]

Repos == {Int2Num(0), Int2Num(10)}

\* The four other metrics of the objects the caller starts from: all 0, all at
\* their median, all the largest Number
Others ==
  {[f \in {"prs", "issues", "reviews", "followers"} |-> Zero(FALSE)],
   [f \in {"prs", "issues", "reviews", "followers"} |-> Median[f]],
   [f \in {"prs", "issues", "reviews", "followers"} |-> MAX_VALUE]}

\* The parameters objects the caller starts from
Inputs ==
  {[all_commits |-> ac, commits |-> c, prs |-> o.prs, issues |-> o.issues,
    reviews |-> o.reviews, repos |-> Int2Num(10), stars |-> s, followers |-> o.followers] :
     ac \in BOOLEAN,
     c \in {Zero(FALSE), COMMITS_MEDIAN(FALSE), COMMITS_MEDIAN(TRUE), MAX_VALUE},
     s \in {Zero(FALSE), STARS_MEDIAN, Big, MAX_VALUE},
     o \in Others}

Init ==
  /\ powRound \in PowRoundings
  /\ input \in Inputs
  /\ calls = <<>>

\* calculateRank(input)
Call ==
  /\ Len(calls) < MaxCalls
  /\ calls' = Append(calls, [args |-> input, ret |-> calculateRank(input)])
  /\ UNCHANGED <<powRound, input>>

\* The caller sets one metric of the object it passed
SetMetric(f, v) ==
  /\ Len(calls) = 1
  /\ input = calls[1].args
  /\ input[f] # v
  /\ input' = [input EXCEPT ![f] = v]
  /\ UNCHANGED <<powRound, calls>>

\* The caller flips all_commits in the object it passed
SetAllCommits ==
  /\ Len(calls) = 1
  /\ input = calls[1].args
  /\ input' = [input EXCEPT !.all_commits = ~input.all_commits]
  /\ UNCHANGED <<powRound, calls>>

\* The caller sets repos in the object it passed
SetRepos(r) ==
  /\ Len(calls) = 1
  /\ input = calls[1].args
  /\ input.repos # r
  /\ input' = [input EXCEPT !.repos = r]
  /\ UNCHANGED <<powRound, calls>>

Next ==
  \/ Call
  \/ \E f \in Metrics : \E v \in Values[f] : SetMetric(f, v)
  \/ SetAllCommits
  \/ \E r \in Repos : SetRepos(r)

Spec == Init /\ [][Next]_vars

(***************************************************************************)
(* The level lookup of line 86 on its own: input holds the value of        *)
(* rank * 100 and calls the lookup made with it.                           *)
(***************************************************************************)

\* Percentiles are taken at the multiples of 1 / GridDen
GridDen == 8

\* The Numbers next above and next below a positive Number
NextUp(x) == RoundMode(FALSE, NAdd(NShl(x.m, 1), <<1>>), x.e - 1, FALSE, "up")
NextDown(x) == RoundMode(FALSE, NSub(NShl(x.m, 1), <<1>>), x.e - 1, FALSE, "down")

ThresholdSet == {THRESHOLDS[i] : i \in 1..Len(THRESHOLDS)}

\* The grid from 0 to 101, every threshold and its two neighbours, and values
\* no threshold accepts or none rejects
Percentiles ==
  {Dec(k, GridDen) : k \in 0..(101 * GridDen)}
  \cup ThresholdSet
  \cup {NextUp(t) : t \in ThresholdSet} \cup {NextDown(t) : t \in ThresholdSet}
  \cup {Zero(TRUE), Int2Num(-1), MAX_VALUE, Inf(FALSE), Inf(TRUE), NaN}

InitLevel ==
  /\ powRound = "nearest"
  /\ input \in Percentiles
  /\ calls = <<>>

\* LEVELS[THRESHOLDS.findIndex((t) => input <= t)]
Lookup ==
  /\ calls = <<>>
  /\ calls' = <<[args |-> input, ret |-> LevelOf(input)]>>
  /\ UNCHANGED <<powRound, input>>

NextLevel == Lookup

SpecLevel == InitLevel /\ [][NextLevel]_vars

(***************************************************************************)
(* Properties                                                              *)
(***************************************************************************)
Made == 1..Len(calls)

\* x is a non-negative finite Number
IsCount(x) == IsFin(x) /\ (IsZero(x) \/ ~x.neg)

\* All six metrics of a are non-negative finite Numbers
AllCounts(a) == \A f \in Metrics : IsCount(a[f])

\* 0 <= p <= 100
InRange(p) == NumLE(Zero(FALSE), p) /\ NumLE(p, Hundred)

\* a and b differ in metric f and nowhere else
DifferOnlyIn(a, b, f) ==
  /\ a[f] # b[f]
  /\ \A g \in DOMAIN a : g # f => a[g] = b[g]

\* C1: every call whose six metrics are non-negative finite Numbers returns a
\* percentile with 0 <= percentile <= 100
C1_PercentileInRange ==
  \A i \in Made : AllCounts(calls[i].args) => InRange(calls[i].ret.percentile)

\* C2: of two calls whose metrics are all non-negative and that differ only in one
\* metric, larger in the second call, the second returns a percentile less than
\* or equal to the first's
C2_Monotone ==
  \A i, j \in Made : \A f \in Metrics :
    /\ AllCounts(calls[i].args)
    /\ AllCounts(calls[j].args)
    /\ DifferOnlyIn(calls[i].args, calls[j].args, f)
    /\ NumLT(calls[i].args[f], calls[j].args[f])
    => NumLE(calls[j].ret.percentile, calls[i].ret.percentile)

\* C3: a lookup with 0 <= p <= 100 returns the label of LEVELS paired with the
\* smallest threshold t with p <= t, and a lookup with p equal to a threshold
\* returns that threshold's own label
C3_Bucketing ==
  \A c \in Made :
    /\ InRange(calls[c].args) =>
         \E i \in 1..Len(THRESHOLDS) :
           /\ calls[c].ret = LEVELS[i]
           /\ NumLE(calls[c].args, THRESHOLDS[i])
           /\ \A j \in 1..(i - 1) : ~NumLE(calls[c].args, THRESHOLDS[j])
    /\ \A i \in 1..Len(THRESHOLDS) :
         NumEq(calls[c].args, THRESHOLDS[i]) => calls[c].ret = LEVELS[i]

\* A lookup was made with the threshold 50 and returned its label
C3_AtThreshold ==
  \E c \in Made :
    /\ InRange(calls[c].args)
    /\ calls[c].ret = LEVELS[8]
    /\ calls[c].args = THRESHOLDS[8]

\* C4: every call that computes a percentile above 100, past every threshold,
\* returns the level "C", the last label, and so no undefined level
C4_Fallback ==
  \A i \in Made :
    NumLT(Hundred, calls[i].ret.percentile) => calls[i].ret.level = LEVELS[Len(LEVELS)]

\* The result object calculateRank returns, as opposed to an error
IsRankResult(r) == DOMAIN r = {"level", "percentile", "detailed"}

\* C5: no call with a negative or non-finite metric returns a result: it is
\* rejected with an InvalidMetric error
C5_Rejected ==
  \A i \in Made : ~AllCounts(calls[i].args) => ~IsRankResult(calls[i].ret)

AllZero(a) == \A f \in Metrics : IsZero(a[f])

\* C6: every call with the six metrics 0, whatever all_commits and repos, returns
\* percentile 100 exactly and the last label, "C"
C6_AllZero ==
  \A i \in Made :
    AllZero(calls[i].args) =>
      /\ calls[i].ret.percentile = Hundred
      /\ calls[i].ret.level = "C"
      /\ calls[i].ret.level = LEVELS[Len(LEVELS)]

\* Two all-zero calls were made, the second with another repos; all_commits set
C6_ZeroCalled ==
  /\ Len(calls) = 2
  /\ AllZero(calls[1].args) /\ AllZero(calls[2].args)
  /\ calls[1].args.all_commits
  /\ calls[1].args.repos # calls[2].args.repos

\* C7: there is a finite B such that every call whose six metrics are all >= B
\* returns percentile <= 0.1 and level "S++".  MAX_VALUE is the largest finite
\* Number: metrics that are all MAX_VALUE are all >= B whatever the finite B,
\* so the claim requires the result of them
C7_Saturates ==
  \A i \in Made :
    (\A f \in Metrics : calls[i].args[f] = MAX_VALUE) =>
      /\ NumLE(calls[i].ret.percentile, THRESHOLDS[1])
      /\ calls[i].ret.level = LEVELS[1]

\* C8: of two calls with commits = 80 and the same non-negative other metrics, the
\* one with all_commits has the strictly smaller commits score and weighted
\* commits contribution and the strictly higher percentile
C8_Calibration ==
  \A i, j \in Made :
    /\ AllCounts(calls[i].args)
    /\ calls[i].args.commits = Int2Num(80)
    /\ ~calls[i].args.all_commits
    /\ calls[j].args = [calls[i].args EXCEPT !.all_commits = TRUE]
    => /\ NumLT(calls[j].ret.detailed.scores.commits, calls[i].ret.detailed.scores.commits)
       /\ NumLT(calls[j].ret.detailed.weighted_contributions.commits,
                calls[i].ret.detailed.weighted_contributions.commits)
       /\ NumLT(calls[i].ret.percentile, calls[j].ret.percentile)

\* C9: every call whose six metrics are non-negative finite Numbers returns
\* detailed.total_weighted_score strictly below detailed.max_possible_score
C9_BelowMax ==
  \A i \in Made :
    AllCounts(calls[i].args) =>
      NumLT(calls[i].ret.detailed.total_weighted_score,
            calls[i].ret.detailed.max_possible_score)

\* C9, amended: every call whose six metrics are non-negative finite Numbers
\* returns a detailed.total_weighted_score that is not above
\* detailed.max_possible_score; finite metrics reach equality
C9_NeverAbove ==
  \A i \in Made :
    AllCounts(calls[i].args) =>
      ~NumLT(calls[i].ret.detailed.max_possible_score,
             calls[i].ret.detailed.total_weighted_score)

\* A call with non-negative finite metrics returned a total equal to the maximum
C9_MaxReached ==
  \E i \in Made :
    /\ AllCounts(calls[i].args)
    /\ calls[i].args.stars = Big
    /\ IsFin(calls[i].ret.detailed.total_weighted_score)
    /\ calls[i].ret.detailed.total_weighted_score = calls[i].ret.detailed.max_possible_score

Half == Dec(1, 2)

\* commits=400, all_commits=true, prs=15, issues=2, reviews=2, stars=0.1,
\* followers=2, repos=10
Golden ==
  [all_commits |-> TRUE, commits |-> Int2Num(400), prs |-> Int2Num(15),
   issues |-> Int2Num(2), reviews |-> Int2Num(2), repos |-> Int2Num(10),
   stars |-> Dec(1, 10), followers |-> Int2Num(2)]

\* C10: every call with the golden input returns the six scores 1/2, a
\* total_weighted_score that is half of max_possible_score, percentile 50 exactly
\* and level "B+", the label of the threshold 50; every two such calls return
\* the same percentile and level
C10_Golden ==
  \A i \in Made :
    calls[i].args = Golden =>
      /\ \A f \in Metrics : calls[i].ret.detailed.scores[f] = Half
      /\ calls[i].ret.detailed.total_weighted_score
           = NumMul(Half, calls[i].ret.detailed.max_possible_score)
      /\ calls[i].ret.percentile = Int2Num(50)
      /\ calls[i].ret.level = "B+"
      /\ THRESHOLDS[8] = Int2Num(50) /\ LEVELS[8] = "B+"
      /\ \A j \in Made :
           calls[j].args = Golden =>
             /\ calls[j].ret.percentile = calls[i].ret.percentile
             /\ calls[j].ret.level = calls[i].ret.level

\* The golden call was made twice
C10_GoldenRepeated ==
  /\ Len(calls) = 2
  /\ calls[1].args = Golden
  /\ calls[2].args = Golden

====
